---------------------------- MODULE Spec2Model ----------------------------
(* Model of the AST layer and parsing driver of rs_vue2_compiler          *)
(* (crates/rs_vue2_compiler/src/ast_tree.rs and src/lib.rs).              *)
(*                                                                        *)
(* Strings are sequences of one-character strings, Option<T> is a         *)
(* sequence of length 0 (None) or 1 (Some), Rc<RefCell<ASTNode>> is an    *)
(* index into the sequence `heap` of allocated nodes. Attribute and tag   *)
(* names are written in lower case, so the case-insensitive comparisons   *)
(* of the source are plain equalities. warn() only prints and has no      *)
(* state. A panic ends the program: it is recorded in `panicked` and no   *)
(* operation is enabled afterwards.                                       *)
EXTENDS Integers, Sequences, FiniteSets, TLC

VARIABLES
    heap,       \* the allocated ASTNodes (Rc<RefCell<ASTNode>>), by index
    counter,    \* ASTTree.counter
    nodes,      \* ASTTree.nodes: identity -> heap index
    options,    \* CompilerOptions: dev, is_ssr, is_pre_tag
    stack,      \* parse: the open-tag identities
    open,       \* history: the heap index of the node behind each stack entry
    in_v_pre,   \* VueParser.in_v_pre
    in_pre,     \* VueParser.in_pre
    pos,        \* parse: number of tokens consumed
    raw_only,   \* history: heap indices of the nodes opened inside a v-pre region
    panicked,   \* "none", or the kind of panic that ended the program
    last_call,  \* history: the last operation and its arguments
    ret         \* the value the last operation returned

vars == <<heap, counter, nodes, options, stack, open, in_v_pre, in_pre, pos,
          raw_only, panicked, last_call, ret>>

(* ---------------------------------------------------------------------- *)
(* Bounds                                                                 *)
(* ---------------------------------------------------------------------- *)
MaxLen == 3
MaxNodes == 2
MaxTokens == 3
MaxAttrs == 2

(* ---------------------------------------------------------------------- *)
(* Option and string helpers                                              *)
(* ---------------------------------------------------------------------- *)
None == <<>>

Some(x) == <<x>>

is_some(o) == Len(o) = 1

is_none(o) == Len(o) = 0

unwrap(o) == o[1]

\* char::is_whitespace over the characters the model uses
IsSpace(c) == c \in {" ", "\t", "\n"}

\* first position >= p that is past the end or holds a non-whitespace char
RECURSIVE SkipSpace(_, _)
SkipSpace(s, p) ==
    IF p <= Len(s) /\ IsSpace(s[p]) THEN SkipSpace(s, p + 1) ELSE p

\* last position <= p that is before the start or holds a non-whitespace char
RECURSIVE SkipSpaceBack(_, _)
SkipSpaceBack(s, p) ==
    IF p >= 1 /\ IsSpace(s[p]) THEN SkipSpaceBack(s, p - 1) ELSE p

\* str::trim
trim(s) ==
    LET a == SkipSpace(s, 1)
        b == SkipSpaceBack(s, Len(s))
    IN  IF a > b THEN <<>> ELSE SubSeq(s, a, b)

starts_with(s, p) == Len(s) >= Len(p) /\ SubSeq(s, 1, Len(p)) = p

DropFirst(s, n) == SubSeq(s, n + 1, Len(s))

Contains(s, c) == \E i \in 1..Len(s) : s[i] = c

\* format!("\"{}\"", name)
Quoted(s) == <<"\"">> \o s \o <<"\"">>

(* ---------------------------------------------------------------------- *)
(* Interned names (uni_codes) and literals used by the processors         *)
(* ---------------------------------------------------------------------- *)
UC_V_FOR == <<"v", "-", "f", "o", "r">>

UC_V_IF == <<"v", "-", "i", "f">>

UC_V_ELSE == <<"v", "-", "e", "l", "s", "e">>

UC_V_ELSE_IF == <<"v", "-", "e", "l", "s", "e", "-", "i", "f">>

UC_V_ONCE == <<"v", "-", "o", "n", "c", "e">>

UC_V_PRE == <<"v", "-", "p", "r", "e">>

UC_KEY == <<"k", "e", "y">>

S_REF == <<"r", "e", "f">>

S_SLOT == <<"s", "l", "o", "t">>

S_SCOPE == <<"s", "c", "o", "p", "e">>

S_SLOT_SCOPE == <<"s", "l", "o", "t", "-", "s", "c", "o", "p", "e">>

S_V_SLOT == <<"v", "-", "s", "l", "o", "t">>

S_V_BIND == <<"v", "-", "b", "i", "n", "d", ":">>

S_DEFAULT == <<"d", "e", "f", "a", "u", "l", "t">>

EMPTY_SLOT_SCOPE_TOKEN == <<"_", "e", "m", "p", "t", "y", "_">>

(* ---------------------------------------------------------------------- *)
(* Regular expressions of lib.rs, as matchers                             *)
(* ---------------------------------------------------------------------- *)

\* SLOT_RE = ^v-slot(:|$)|^#  : length of the match at the start, 0 if none
SLOT_RE_len(s) ==
    IF starts_with(s, S_V_SLOT \o <<":">>) THEN 7
    ELSE IF s = S_V_SLOT THEN 6
    ELSE IF starts_with(s, <<"#">>) THEN 1
    ELSE 0

SLOT_RE_is_match(s) == SLOT_RE_len(s) > 0

\* SLOT_RE.replace_all(s, ""): the pattern is anchored at the start of the
\* text, so at most one match is removed
SLOT_RE_strip(s) == DropFirst(s, SLOT_RE_len(s))

\* DYNAMIC_ARG_RE = ^\[.*\]$  ('.' matches any character except '\n')
DYNAMIC_ARG_RE_is_match(s) ==
    /\ Len(s) >= 2
    /\ s[1] = "["
    /\ s[Len(s)] = "]"
    /\ ~ Contains(s, "\n")

\* STRIP_PARENS_RE = ^\(|\)$ , replace_all(s, "")
STRIP_PARENS(s) ==
    LET a == IF Len(s) > 0 /\ s[1] = "(" THEN Tail(s) ELSE s
    IN  IF Len(a) > 0 /\ a[Len(a)] = ")" THEN SubSeq(a, 1, Len(a) - 1) ELSE a

\* does  \s+(?:in|of)\s+  match right after the first i characters of s
ForSepAt(s, i) ==
    LET j == SkipSpace(s, i + 1)
    IN  /\ j > i + 1
        /\ j + 2 <= Len(s)
        /\ SubSeq(s, j, j + 1) \in {<<"i", "n">>, <<"o", "f">>}
        /\ IsSpace(s[j + 2])

\* FOR_ALIAS_RE = ([\s\S]*?)\s+(?:in|of)\s+([\s\S]*)
\* None, or Some(<<group 1, group 2>>): group 1 is lazy, so it is the
\* shortest prefix followed by a separator
FOR_ALIAS_RE_captures(s) ==
    LET starts == {i \in 0..Len(s) : ForSepAt(s, i)}
    IN  IF starts = {} THEN None
        ELSE LET i == CHOOSE x \in starts : \A y \in starts : x <= y
                 j == SkipSpace(s, i + 1)
                 k == SkipSpace(s, j + 2)
             IN  Some(<<SubSeq(s, 1, i), SubSeq(s, k, Len(s))>>)

CountOf(s, c) == Cardinality({i \in 1..Len(s) : s[i] = c})

\* does  ,([^,\}\]]*)(?:,([^,\}\]]*))?$  match starting at the comma at p
ForIterAt(s, p) ==
    LET rest == DropFirst(s, p)
    IN  /\ s[p] = ","
        /\ ~ Contains(rest, "}")
        /\ ~ Contains(rest, "]")
        /\ CountOf(rest, ",") <= 1

\* FOR_ITERATOR_RE: None, or Some(<<group 1, Option group 2>>) of the
\* leftmost match
FOR_ITERATOR_RE_captures(s) ==
    LET starts == {p \in 1..Len(s) : ForIterAt(s, p)}
    IN  IF starts = {} THEN None
        ELSE LET p == CHOOSE x \in starts : \A y \in starts : x <= y
                 rest == DropFirst(s, p)
                 cs == {i \in 1..Len(rest) : rest[i] = ","}
             IN  IF cs = {} THEN Some(<<rest, None>>)
                 ELSE LET c == CHOOSE x \in cs : TRUE
                      IN  Some(<<SubSeq(rest, 1, c - 1),
                                 Some(DropFirst(rest, c))>>)

(* ---------------------------------------------------------------------- *)
(* get_slot_name                                                          *)
(* ---------------------------------------------------------------------- *)
get_slot_name_unquoted(binding) ==
    LET stripped == SLOT_RE_strip(binding)
        name == IF stripped = <<>> /\ ~ starts_with(binding, <<"#">>)
                THEN S_DEFAULT ELSE stripped
    IN  IF DYNAMIC_ARG_RE_is_match(name)
        THEN [name |-> SubSeq(name, 2, Len(name) - 1), dynamic |-> TRUE]
        ELSE [name |-> name, dynamic |-> FALSE]

get_slot_name(binding) ==
    LET stripped == SLOT_RE_strip(binding)
        name == IF stripped = <<>> /\ ~ starts_with(binding, <<"#">>)
                THEN S_DEFAULT ELSE stripped
    IN  IF DYNAMIC_ARG_RE_is_match(name)
        THEN [name |-> SubSeq(name, 2, Len(name) - 1), dynamic |-> TRUE]
        ELSE [name |-> Quoted(name), dynamic |-> FALSE]

(* ---------------------------------------------------------------------- *)
(* Token, ASTElement, ASTNode, ASTTree                                    *)
(* ---------------------------------------------------------------------- *)

\* rs_html_parser_tokens::Token; attrs is Option<map name -> Option<(value, quote)>>
Token(kind, data, attrs) == [kind |-> kind, data |-> data, attrs |-> attrs]

create_ast_element(token, dev) ==
    [token |-> token,
     forbidden |-> FALSE,
     pre |-> FALSE,
     plain |-> FALSE,
     ignored |-> {},
     processed |-> FALSE,
     ref_val |-> None,
     alias |-> None,
     for_value |-> None,
     iterator1 |-> None,
     iterator2 |-> None,
     if_val |-> None,
     if_processed |-> FALSE,
     else_if_val |-> None,
     is_else |-> FALSE,
     once |-> FALSE,
     slot_name |-> None,
     slot_target |-> None,
     key |-> None,
     is_dev |-> dev,
     ref_in_for |-> FALSE,
     component |-> FALSE,
     attrs |-> None,
     scoped_slots |-> None,
     slot_scope |-> None,
     dynamic_attrs |-> None,
     slot_target_dynamic |-> FALSE,
     new_slot_syntax |-> FALSE]

\* parent is Option<heap index> (the Weak back-reference)
ASTNode(id, el, children, parent) ==
    [id |-> id, el |-> el, children |-> children, parent |-> parent]

\* ASTTree::new: the tree is the triple heap / counter / nodes
ASTTree_new(dev) ==
    [heap |-> <<ASTNode(0,
                        create_ast_element(
                            Token("ProcessingInstruction", "", None), dev),
                        <<>>, None)>>,
     counter |-> 0,
     nodes |-> (0 :> 1)]

\* ASTTree::get: Option<heap index>
ASTTree_get(t, id) ==
    IF id \in DOMAIN t.nodes THEN Some(t.nodes[id]) ELSE None

\* ASTTree::create. borrowed is the set of heap indices that are mutably
\* borrowed (RefCell) by the caller. The result names the panic when
\* the unwrap of the parent lookup or the borrow_mut of the parent fails.
ASTTree_create(t, element, parent_id, borrowed) ==
    LET new_id == t.counter + 1
        parent == ASTTree_get(t, parent_id)
        h == Len(t.heap) + 1
    IN  IF is_none(parent)
        THEN [panic |-> "unwrap", tree |-> t, handle |-> 0]
        ELSE IF unwrap(parent) \in borrowed
        THEN [panic |-> "borrow", tree |-> t, handle |-> 0]
        ELSE [panic |-> "none",
              tree |-> [t EXCEPT !.heap =
                           [Append(t.heap,
                                   ASTNode(new_id, element, <<>>, parent))
                              EXCEPT ![unwrap(parent)].children =
                                         Append(@, h)]],
              handle |-> h]

IsTemplate(node) == node.el.token.data = "template"

(* ---------------------------------------------------------------------- *)
(* Attribute-access primitives (each returns the node and the value)      *)
(* ---------------------------------------------------------------------- *)
AttrPresent(node, name) ==
    /\ is_some(node.el.token.attrs)
    /\ name \in DOMAIN unwrap(node.el.token.attrs)

\* the Option<(value, quote)> stored under a present name
AttrEntry(node, name) == unwrap(node.el.token.attrs)[name]

has_raw_attr(node, name) == AttrPresent(node, name)

get_raw_attr(node, name) ==
    IF AttrPresent(node, name) /\ is_some(AttrEntry(node, name))
    THEN Some(unwrap(AttrEntry(node, name))[1])
    ELSE None

get_and_remove_attr_removing(node, name, fully_remove) ==
    IF AttrPresent(node, name)
    THEN LET m == unwrap(node.el.token.attrs)
         IN  [node |-> [node EXCEPT
                           !.el.ignored = IF ~ fully_remove
                                          THEN @ \cup {name} ELSE @,
                           !.el.token.attrs =
                               Some([n \in DOMAIN m \ {name} |-> m[n]])],
              ret |-> IF is_some(m[name]) THEN Some(unwrap(m[name])[1])
                      ELSE None]
    ELSE [node |-> node, ret |-> None]

get_and_remove_attr(node, name, fully_remove) ==
    IF AttrPresent(node, name)
    THEN [node |-> IF ~ fully_remove
                   THEN [node EXCEPT !.el.ignored = @ \cup {name}]
                   ELSE node,
          ret |-> IF is_some(AttrEntry(node, name))
                  THEN Some(unwrap(AttrEntry(node, name))[1])
                  ELSE None]
    ELSE [node |-> node, ret |-> None]

get_and_remove_attr_including_quotes(node, name, fully_remove) ==
    IF AttrPresent(node, name)
    THEN [node |-> IF ~ fully_remove
                   THEN [node EXCEPT !.el.ignored = @ \cup {name}]
                   ELSE node,
          ret |-> AttrEntry(node, name)]
    ELSE [node |-> node, ret |-> None]

insert_into_attrs(node, key, value) ==
    IF is_some(node.el.token.attrs)
    THEN LET m == unwrap(node.el.token.attrs)
         IN  [node EXCEPT !.el.token.attrs =
                 Some([n \in DOMAIN m \cup {key} |->
                          IF n = key THEN Some(value) ELSE m[n]])]
    ELSE [node EXCEPT !.el.token.attrs =
             Some([n \in {key} |-> Some(value)])]

(* ---------------------------------------------------------------------- *)
(* Key order of UniCaseBTreeMap (lexicographic on character codes)        *)
(* ---------------------------------------------------------------------- *)
CodeOrder == <<"#", "-", ":", "[", "]", "_", "a", "b", "c", "d", "e", "f",
               "g", "h", "i", "j", "k", "l", "m", "n", "o", "p", "q", "r",
               "s", "t", "u", "v", "w", "x", "y", "z">>

CharCode(c) == CHOOSE i \in 1..Len(CodeOrder) : CodeOrder[i] = c

RECURSIVE KeyLess(_, _)
KeyLess(a, b) ==
    IF b = <<>> THEN FALSE
    ELSE IF a = <<>> THEN TRUE
    ELSE IF a[1] = b[1] THEN KeyLess(Tail(a), Tail(b))
    ELSE CharCode(a[1]) < CharCode(b[1])

\* get_and_remove_attr_by_regex(&SLOT_RE): panics on a node without an
\* attribute map; every matching name up to the first one that has a value
\* is recorded in ignored
get_and_remove_attr_by_regex(node) ==
    IF is_none(node.el.token.attrs)
    THEN [panic |-> "unwrap", node |-> node, ret |-> None]
    ELSE LET m == unwrap(node.el.token.attrs)
             matching == {n \in DOMAIN m : SLOT_RE_is_match(n)}
             valued == {n \in matching : is_some(m[n])}
         IN  IF valued = {}
             THEN [panic |-> "none",
                   node |-> [node EXCEPT !.el.ignored = @ \cup matching],
                   ret |-> None]
             ELSE LET first == CHOOSE n \in valued :
                                  \A o \in valued \ {n} : KeyLess(n, o)
                  IN  [panic |-> "none",
                       node |-> [node EXCEPT !.el.ignored = @ \cup
                                    {n \in matching :
                                        n = first \/ KeyLess(n, first)}],
                       ret |-> Some(unwrap(m[first])[1])]

\* crate::filter_parser::parse_filters: an expression without a filter pipe
\* is returned as it is, one with a pipe is wrapped in a filter call
parse_filters(value) ==
    IF Contains(value[1], "|")
    THEN <<"_", "f", "(">> \o value[1] \o <<")">>
    ELSE value[1]

get_binding_attr_static_first(node, name, get_static) ==
    LET s0 == get_and_remove_attr(node, name, FALSE)
        r1 == get_and_remove_attr_including_quotes(
                  s0.node, <<":">> \o name, FALSE)
        r2 == IF is_none(r1.ret)
              THEN get_and_remove_attr_including_quotes(
                       r1.node, S_V_BIND \o name, FALSE)
              ELSE r1
    IN  IF get_static /\ is_some(s0.ret)
        THEN [node |-> s0.node, ret |-> unwrap(s0.ret)]
        ELSE IF is_some(r2.ret)
        THEN [node |-> r2.node, ret |-> parse_filters(unwrap(r2.ret))]
        ELSE [node |-> r2.node, ret |-> <<>>]

get_binding_attr(node, name, get_static) ==
    LET r1 == get_and_remove_attr_including_quotes(
                  node, <<":">> \o name, FALSE)
        r2 == IF is_none(r1.ret)
              THEN get_and_remove_attr_including_quotes(
                       r1.node, S_V_BIND \o name, FALSE)
              ELSE r1
        r3 == get_and_remove_attr(r2.node, name, FALSE)
    IN  IF is_some(r2.ret)
        THEN [node |-> r2.node, ret |-> parse_filters(unwrap(r2.ret))]
        ELSE IF get_static
        THEN IF is_some(r3.ret)
             THEN [node |-> r3.node, ret |-> unwrap(r3.ret)]
             ELSE [node |-> r3.node, ret |-> <<>>]
        ELSE [node |-> r2.node, ret |-> <<>>]

(* ---------------------------------------------------------------------- *)
(* Scalar directive processors                                            *)
(* ---------------------------------------------------------------------- *)
process_raw_attributes(node) ==
    IF is_none(node.el.token.attrs)
    THEN [node EXCEPT !.el.plain = TRUE]
    ELSE node

\* Option<ForParseResult>
parse_for(exp) ==
    LET in_match == FOR_ALIAS_RE_captures(exp)
    IN  IF is_none(in_match) THEN None
        ELSE LET alias == STRIP_PARENS(trim(unwrap(in_match)[1]))
                 for_value == trim(unwrap(in_match)[2])
                 iterator_match == FOR_ITERATOR_RE_captures(alias)
             IN  IF is_some(iterator_match)
                 THEN Some([alias |-> trim(unwrap(iterator_match)[1]),
                            for_value |-> for_value,
                            iterator1 |-> Some(trim(unwrap(iterator_match)[1])),
                            iterator2 |->
                                IF is_some(unwrap(iterator_match)[2])
                                THEN Some(trim(unwrap(
                                         unwrap(iterator_match)[2])))
                                ELSE None])
                 ELSE Some([alias |-> alias,
                            for_value |-> for_value,
                            iterator1 |-> None,
                            iterator2 |-> None])

process_for(node) ==
    LET val == get_and_remove_attr(node, UC_V_FOR, FALSE)
        result_option == IF is_some(val.ret)
                         THEN parse_for(unwrap(val.ret)) ELSE None
    IN  IF is_some(result_option)
        THEN [val.node EXCEPT
                 !.el.alias = Some(unwrap(result_option).alias),
                 !.el.for_value = Some(unwrap(result_option).for_value),
                 !.el.iterator1 = unwrap(result_option).iterator1,
                 !.el.iterator2 = unwrap(result_option).iterator2]
        ELSE val.node

process_pre(node) ==
    LET r == get_and_remove_attr(node, UC_V_PRE, FALSE)
    IN  IF is_some(r.ret) THEN [r.node EXCEPT !.el.pre = TRUE] ELSE r.node

process_if(node) ==
    LET vif_optional == get_and_remove_attr(node, UC_V_IF, FALSE)
        v_else_optional ==
            get_and_remove_attr(vif_optional.node, UC_V_ELSE, FALSE)
        n1 == IF is_some(v_else_optional.ret)
              THEN [v_else_optional.node EXCEPT !.el.is_else = TRUE]
              ELSE v_else_optional.node
        v_else_if_optional == get_and_remove_attr(n1, UC_V_ELSE_IF, FALSE)
    IN  IF is_some(vif_optional.ret)
        THEN [vif_optional.node EXCEPT
                 !.el.if_val = Some(unwrap(vif_optional.ret))]
        ELSE IF is_some(v_else_if_optional.ret)
        THEN [v_else_if_optional.node EXCEPT
                 !.el.if_val = Some(unwrap(v_else_if_optional.ret))]
        ELSE v_else_if_optional.node

process_once(node) ==
    LET r == get_and_remove_attr(node, UC_V_ONCE, FALSE)
    IN  IF is_some(r.ret) THEN [r.node EXCEPT !.el.once = TRUE] ELSE r.node

\* the warnings of process_key leave no state
process_key(node) ==
    LET exp == get_binding_attr(node, UC_KEY, FALSE)
    IN  IF exp.ret # <<>> /\ exp.node.el.is_dev
        THEN [exp.node EXCEPT !.el.key = Some(exp.ret)]
        ELSE exp.node

\* the loop of check_in_for over the parent references; p is Option<index>
RECURSIVE check_in_for_up(_, _)
check_in_for_up(hp, p) ==
    IF is_none(p) THEN FALSE
    ELSE IF is_some(hp[unwrap(p)].el.for_value) THEN TRUE
    ELSE check_in_for_up(hp, hp[unwrap(p)].parent)

check_in_for(hp, node) ==
    IF is_some(node.el.for_value) THEN TRUE
    ELSE check_in_for_up(hp, node.parent)

process_ref(hp, node) ==
    LET ref_option == get_and_remove_attr(node, S_REF, FALSE)
    IN  IF is_some(ref_option.ret)
        THEN [ref_option.node EXCEPT
                 !.el.ref_val = Some(unwrap(ref_option.ret)),
                 !.el.ref_in_for = check_in_for(hp, ref_option.node)]
        ELSE ref_option.node

(* ---------------------------------------------------------------------- *)
(* Slot content                                                           *)
(* ---------------------------------------------------------------------- *)
is_maybe_component(node) ==
    \/ node.el.component
    \/ has_raw_attr(node, <<"i", "s">>)
    \/ has_raw_attr(node, S_V_BIND \o <<"i", "s">>)

\* scope / slot-scope section of process_slot_content
slot_scope_section(node) ==
    IF IsTemplate(node)
    THEN LET r1 == get_and_remove_attr(node, S_SCOPE, FALSE)
             r2 == get_and_remove_attr(r1.node, S_SLOT_SCOPE, FALSE)
         IN  IF is_some(r1.ret)
             THEN [r1.node EXCEPT !.el.slot_scope = r1.ret]
             ELSE [r2.node EXCEPT !.el.slot_scope = r2.ret]
    ELSE LET r == get_and_remove_attr(node, S_SLOT_SCOPE, FALSE)
         IN  [r.node EXCEPT !.el.slot_scope = r.ret]

\* slot="xxx" section of process_slot_content
slot_target_section(node) ==
    LET r == get_and_remove_attr(node, S_SLOT, FALSE)
    IN  IF is_some(r.ret)
        THEN LET n1 == [r.node EXCEPT
                           !.el.slot_target =
                               IF unwrap(r.ret) = <<>>
                               THEN Some(S_DEFAULT) ELSE r.ret,
                           !.el.slot_target_dynamic =
                               \/ has_raw_attr(r.node, S_SLOT)
                               \/ has_raw_attr(r.node, S_V_BIND \o S_SLOT)]
             IN  IF ~ IsTemplate(n1) /\ ~ is_some(n1.el.slot_scope)
                 THEN insert_into_attrs(n1, S_SLOT,
                                        <<unwrap(r.ret), "NoValue">>)
                 ELSE n1
        ELSE r.node

slot_scope_or_empty(val) ==
    Some(IF val = <<>> THEN EMPTY_SLOT_SCOPE_TOKEN ELSE val)

\* 2.6 v-slot syntax on <template>
v_slot_on_template(node) ==
    LET slot_binding == get_and_remove_attr_by_regex(node)
    IN  IF slot_binding.panic # "none"
        THEN [panic |-> slot_binding.panic, node |-> node]
        ELSE IF is_some(slot_binding.ret)
        THEN LET slot_name == get_slot_name(unwrap(slot_binding.ret))
             IN  [panic |-> "none",
                  node |-> [slot_binding.node EXCEPT
                      !.el.slot_target = Some(slot_name.name),
                      !.el.slot_target_dynamic = slot_name.dynamic,
                      !.el.slot_scope =
                          slot_scope_or_empty(unwrap(slot_binding.ret))]]
        ELSE [panic |-> "none", node |-> slot_binding.node]

\* the children of self that move under the slot container: a child that
\* is mutably borrowed makes borrow_mut panic
RECURSIVE MovedChildren(_, _, _)
MovedChildren(hp, children, borrowed) ==
    IF children = <<>> THEN [panic |-> "none", moved |-> <<>>]
    ELSE LET rest == MovedChildren(hp, Tail(children), borrowed)
         IN  IF Head(children) \in borrowed \/ rest.panic # "none"
             THEN [panic |-> "borrow", moved |-> <<>>]
             ELSE IF is_none(hp[Head(children)].el.slot_scope)
             THEN [panic |-> "none",
                   moved |-> <<Head(children)>> \o rest.moved]
             ELSE rest

\* 2.6 v-slot syntax on a component: the structural rewrite. self is the
\* heap index h, mutably borrowed by the caller.
v_slot_on_component(t, h) ==
    LET self == t.heap[h]
        slot_binding == get_and_remove_attr_by_regex(self)
    IN  IF slot_binding.panic # "none"
        THEN [panic |-> slot_binding.panic, tree |-> t]
        ELSE IF is_none(slot_binding.ret)
        THEN [panic |-> "none",
              tree |-> [t EXCEPT !.heap[h] = slot_binding.node]]
        ELSE
        LET val == unwrap(slot_binding.ret)
            n1 == IF is_some(slot_binding.node.el.scoped_slots)
                  THEN slot_binding.node
                  ELSE [slot_binding.node EXCEPT
                           !.el.scoped_slots = Some(<<>>)]
            t1 == [t EXCEPT !.heap[h] = n1]
            slot_name == get_slot_name(val)
            cr == ASTTree_create(
                      t1,
                      create_ast_element(Token("OpenTag", "template", None),
                                         n1.el.is_dev),
                      n1.id, {h})
        IN  IF cr.panic # "none" THEN [panic |-> cr.panic, tree |-> t1]
            ELSE
            LET c == cr.handle
                parent == unwrap(ASTTree_get(cr.tree, n1.id))
                mv == MovedChildren(cr.tree.heap, cr.tree.heap[h].children,
                                    {h, c})
                slots == unwrap(n1.el.scoped_slots)
                hp1 == [i \in DOMAIN cr.tree.heap |->
                          IF i = c
                          THEN [cr.tree.heap[i] EXCEPT
                                   !.el.slot_target = Some(slot_name.name),
                                   !.el.slot_target_dynamic =
                                       slot_name.dynamic,
                                   !.children = mv.moved,
                                   !.el.slot_scope = slot_scope_or_empty(val)]
                          ELSE IF i = h
                          THEN [cr.tree.heap[i] EXCEPT
                                   !.el.scoped_slots =
                                       Some([n \in DOMAIN slots
                                                   \cup {slot_name.name} |->
                                               IF n = slot_name.name THEN c
                                               ELSE slots[n]]),
                                   !.children = <<>>,
                                   !.el.plain = FALSE]
                          ELSE IF \E k \in 1..Len(mv.moved) : mv.moved[k] = i
                          THEN [cr.tree.heap[i] EXCEPT !.parent = Some(parent)]
                          ELSE cr.tree.heap[i]]
            IN  IF mv.panic # "none" THEN [panic |-> mv.panic, tree |-> cr.tree]
                ELSE [panic |-> "none", tree |-> [cr.tree EXCEPT !.heap = hp1]]

process_slot_content(t, h) ==
    LET n2 == slot_target_section(slot_scope_section(t.heap[h]))
        t2 == [t EXCEPT !.heap[h] = n2]
    IN  IF ~ n2.el.new_slot_syntax THEN [panic |-> "none", tree |-> t2]
        ELSE IF IsTemplate(n2)
        THEN LET r == v_slot_on_template(n2)
             IN  [panic |-> r.panic, tree |-> [t2 EXCEPT !.heap[h] = r.node]]
        ELSE v_slot_on_component(t2, h)

\* ASTNode::process_element
process_element(t, h) ==
    LET n1 == process_key(t.heap[h])
        n2 == [n1 EXCEPT !.el.plain =
                  /\ is_none(n1.el.key)
                  /\ is_none(n1.el.scoped_slots)
                  /\ is_none(n1.el.token.attrs)]
        n3 == process_ref(t.heap, n2)
    IN  process_slot_content([t EXCEPT !.heap[h] = n3], h)

(* ---------------------------------------------------------------------- *)
(* State shared by the specifications                                     *)
(* ---------------------------------------------------------------------- *)
Tree == [heap |-> heap, counter |-> counter, nodes |-> nodes]

SetTree(t) ==
    /\ heap' = t.heap
    /\ counter' = t.counter
    /\ nodes' = t.nodes

NoCall == [op |-> "none"]

\* VueParser::new and the locals of parse before the first token, over a
\* tree made by ASTTree::new
InitWith(opts) ==
    /\ options = opts
    /\ heap = ASTTree_new(opts.dev).heap
    /\ counter = ASTTree_new(opts.dev).counter
    /\ nodes = ASTTree_new(opts.dev).nodes
    /\ stack = <<>>
    /\ open = <<>>
    /\ in_v_pre = FALSE
    /\ in_pre = FALSE
    /\ pos = 0
    /\ raw_only = {}
    /\ panicked = "none"
    /\ last_call = NoCall
    /\ ret = None

DriverUnchanged ==
    UNCHANGED <<options, stack, open, in_v_pre, in_pre, pos, raw_only>>

(* ---------------------------------------------------------------------- *)
(* SpecSlotName: get_slot_name applied to bounded bindings                *)
(* ---------------------------------------------------------------------- *)
SlotChars == {"[", "]", "a", "\n", "#"}

\* the strings over SlotChars of length at most n
RECURSIVE StringsUpTo(_, _)
StringsUpTo(chars, n) ==
    IF n = 0 THEN {<<>>}
    ELSE LET shorter == StringsUpTo(chars, n - 1)
         IN  shorter \cup {Append(s, c) : s \in shorter, c \in chars}

\* a binding is a marker followed by a remainder; the bare v-slot marker
\* takes no remainder, and a binding without marker does not start with #
SlotBindings ==
    {<<m, r>> \in {<<>>, S_V_SLOT, S_V_SLOT \o <<":">>, <<"#">>}
                  \X StringsUpTo(SlotChars, MaxLen) :
        /\ m = S_V_SLOT => r = <<>>
        /\ m = <<>> => ~ starts_with(r, <<"#">>)}

InitSlotName ==
    InitWith([dev |-> TRUE, is_ssr |-> FALSE, is_pre_tag |-> None])

CallGetSlotName ==
    \E b \in SlotBindings :
        /\ last_call = NoCall
        /\ last_call' = [op |-> "get_slot_name", marker |-> b[1],
                         rest |-> b[2]]
        /\ ret' = get_slot_name(b[1] \o b[2])
        /\ UNCHANGED <<heap, counter, nodes, panicked>>
        /\ DriverUnchanged

NextSlotName == CallGetSlotName

SpecSlotName == InitSlotName /\ [][NextSlotName]_vars

Bracketed(s) == Len(s) >= 2 /\ s[1] = "[" /\ s[Len(s)] = "]"

Inner(s) == SubSeq(s, 2, Len(s) - 1)

\* C9 (as claimed): after the marker is stripped, a bracketed remainder [X]
\* gives name X with dynamic = TRUE; a non-empty unbracketed remainder N
\* gives N in double quotes with dynamic = FALSE; an empty remainder of a
\* binding that does not start with # gives "default" in double quotes with
\* dynamic = FALSE.
C9_AsClaimed ==
    last_call.op = "get_slot_name" =>
        LET r == last_call.rest
        IN  /\ Bracketed(r) => ret = [name |-> Inner(r), dynamic |-> TRUE]
            /\ (r # <<>> /\ ~ Bracketed(r)) =>
                   ret = [name |-> Quoted(r), dynamic |-> FALSE]
            /\ (r = <<>> /\ last_call.marker # <<"#">>) =>
                   ret = [name |-> Quoted(S_DEFAULT), dynamic |-> FALSE]

\* C9 (amended): as claimed, for a bracketed remainder [X] whose X holds no
\* line feed; a bracketed remainder with a line feed in X is a static name,
\* returned whole in double quotes.
C9_SlotName ==
    last_call.op = "get_slot_name" =>
        LET r == last_call.rest
        IN  /\ (Bracketed(r) /\ ~ Contains(Inner(r), "\n")) =>
                   ret = [name |-> Inner(r), dynamic |-> TRUE]
            /\ (Bracketed(r) /\ Contains(Inner(r), "\n")) =>
                   ret = [name |-> Quoted(r), dynamic |-> FALSE]
            /\ (r # <<>> /\ ~ Bracketed(r)) =>
                   ret = [name |-> Quoted(r), dynamic |-> FALSE]
            /\ (r = <<>> /\ last_call.marker # <<"#">>) =>
                   ret = [name |-> Quoted(S_DEFAULT), dynamic |-> FALSE]

C9_Witness ==
    /\ last_call.op = "get_slot_name"
    /\ last_call.marker = <<"#">>
    /\ last_call.rest = <<"[", "a", "]">>
    /\ ret = [name |-> <<"a">>, dynamic |-> TRUE]

(* ---------------------------------------------------------------------- *)
(* Spec: VueParser::parse over bounded token sequences                    *)
(* ---------------------------------------------------------------------- *)
V_empty == <<>>

V_a == <<"a">>

V_b == <<"b">>

V_r == <<"r">>

V_s == <<"s">>

V_filter == <<"a", "|", "f">>

V_for == <<"a", " ", "i", "n", " ", "x", "s">>

S_TYPE == <<"t", "y", "p", "e">>

V_text_javascript ==
    <<"t", "e", "x", "t", "/", "j", "a", "v", "a", "s", "c", "r", "i", "p", "t">>

\* an attribute written with a value, and one written without
Valued(v) == Some(<<v, "Double">>)

NoValue == None

\* the attribute map with the single entry name -> entry
Attr(name, entry) == [n \in {name} |-> entry]

\* the union of two attribute maps with disjoint names
Attrs2(a, b) ==
    [n \in DOMAIN a \cup DOMAIN b |-> IF n \in DOMAIN a THEN a[n] ELSE b[n]]

DriverAttrs ==
    {None,
     Some(Attr(UC_V_PRE, NoValue)),
     Some(Attr(UC_V_PRE, Valued(V_empty))),
     Some(Attr(UC_V_IF, Valued(V_a))),
     Some(Attr(UC_V_FOR, Valued(V_for))),
     Some(Attrs2(Attr(UC_V_FOR, Valued(V_for)),
                 Attr(<<":">> \o UC_KEY, Valued(V_a)))),
     Some(Attrs2(Attr(UC_V_ONCE, Valued(V_empty)),
                 Attr(S_REF, Valued(V_r))))}

DriverTokens ==
    {Token("OpenTag", "div", a) : a \in DriverAttrs}
        \cup {Token("OpenTag", "template", None),
              Token("OpenTag", "style", None),
              Token("OpenTag", "pre", None)}

DriverOptions ==
    {[dev |-> TRUE, is_ssr |-> FALSE, is_pre_tag |-> Some({"pre"})],
     [dev |-> FALSE, is_ssr |-> TRUE, is_pre_tag |-> None]}

\* let mut current_parent_id = 0, never assigned again
current_parent_id == 0

is_forbidden_tag(token) ==
    /\ token.kind = "OpenTag"
    /\ \/ token.data = "style"
       \/ /\ token.data = "script"
          /\ is_some(token.attrs)
          /\ S_TYPE \in DOMAIN unwrap(token.attrs)
          /\ is_some(unwrap(token.attrs)[S_TYPE])
          /\ unwrap(unwrap(token.attrs)[S_TYPE])[1] = V_text_javascript

platform_is_pre_tag(tag) ==
    /\ is_some(options.is_pre_tag)
    /\ tag \in unwrap(options.is_pre_tag)

Init == \E o \in DriverOptions : InitWith(o)

open_tag_directives_always(node, v_pre) ==
    IF ~ node.el.processed
    THEN process_once(process_if(process_for(node)))
    ELSE node

\* the attribute handling of the OpenTag arm once in_v_pre is settled:
\* raw attributes inside a v-pre region, for / if / once outside
open_tag_directives(node, v_pre) ==
    IF v_pre THEN process_raw_attributes(node)
    ELSE IF ~ node.el.processed
    THEN process_once(process_if(process_for(node)))
    ELSE node

\* TokenKind::OpenTag arm of parse
OpenTag ==
    \E token \in DriverTokens :
        LET cr == ASTTree_create(Tree, create_ast_element(token, options.dev),
                                 current_parent_id, {})
            h == cr.handle
            n0 == cr.tree.heap[h]
            n1 == IF is_forbidden_tag(n0.el.token) /\ ~ options.is_ssr
                  THEN [n0 EXCEPT !.el.forbidden = TRUE] ELSE n0
            n2 == IF ~ in_v_pre THEN process_pre(n1) ELSE n1
            v_pre == in_v_pre \/ (~ in_v_pre /\ n2.el.pre)
            n3 == open_tag_directives(n2, v_pre)
        IN  /\ panicked = "none"
            /\ pos < MaxTokens
            /\ pos' = pos + 1
            /\ IF cr.panic # "none"
               THEN /\ panicked' = cr.panic
                    /\ UNCHANGED <<heap, counter, nodes, stack, open,
                                   in_v_pre, in_pre, raw_only>>
               ELSE /\ SetTree([cr.tree EXCEPT !.heap[h] = n3])
                    /\ in_v_pre' = v_pre
                    /\ raw_only' = IF v_pre THEN raw_only \cup {h}
                                   ELSE raw_only
                    /\ in_pre' = (in_pre \/ platform_is_pre_tag(n0.el.token.data))
                    /\ stack' = Append(stack, n3.id)
                    /\ open' = Append(open, h)
                    /\ panicked' = "none"
            /\ last_call' = [op |-> "OpenTag", h |-> h,
                             parent_expected |->
                                 IF open = <<>> THEN 1 ELSE open[Len(open)]]
            /\ ret' = None
            /\ UNCHANGED options

\* TokenKind::CloseTag arm of parse; the finalization it calls is
\* ASTNode::process_element
CloseTag ==
    /\ panicked = "none"
    /\ pos < MaxTokens
    /\ pos' = pos + 1
    /\ last_call' = [op |-> "CloseTag", stack_was_empty |-> (stack = <<>>),
                     h |-> IF open = <<>> THEN 0 ELSE open[Len(open)]]
    /\ ret' = None
    /\ IF stack = <<>>
       THEN UNCHANGED <<heap, counter, nodes, stack, open, panicked>>
       ELSE LET open_tag_id == stack[Len(stack)]
                node == ASTTree_get(Tree, open_tag_id)
            IN  /\ stack' = SubSeq(stack, 1, Len(stack) - 1)
                /\ open' = SubSeq(open, 1, Len(open) - 1)
                /\ IF is_none(node)
                   THEN /\ panicked' = "unwrap"
                        /\ UNCHANGED <<heap, counter, nodes>>
                   ELSE IF ~ in_v_pre /\ ~ heap[unwrap(node)].el.processed
                   THEN LET r == process_element(Tree, unwrap(node))
                        IN  /\ SetTree(r.tree)
                            /\ panicked' = r.panic
                   ELSE UNCHANGED <<heap, counter, nodes, panicked>>
    /\ UNCHANGED <<options, in_v_pre, in_pre, raw_only>>

\* TokenKind::Text arm of parse
Text ==
    /\ panicked = "none"
    /\ pos < MaxTokens
    /\ pos' = pos + 1
    /\ last_call' = [op |-> "Text"]
    /\ ret' = None
    /\ UNCHANGED <<heap, counter, nodes, options, stack, open, in_v_pre,
                   in_pre, raw_only, panicked>>

\* any other TokenKind: todo!()
OtherToken ==
    /\ panicked = "none"
    /\ pos < MaxTokens
    /\ pos' = pos + 1
    /\ panicked' = "todo"
    /\ last_call' = [op |-> "OtherToken"]
    /\ ret' = None
    /\ UNCHANGED <<heap, counter, nodes, options, stack, open, in_v_pre,
                   in_pre, raw_only>>

Next == OpenTag \/ CloseTag \/ Text \/ OtherToken

Spec == Init /\ [][Next]_vars

\* C2 (as claimed): the node an OpenTag creates is attached as a child of
\* the node behind the top entry of the open-tag stack at that moment, the
\* root when the stack is empty: its parent reference is that node and that
\* node's child list holds it.
C2_AttachedUnderStackTop ==
    (last_call.op = "OpenTag" /\ panicked = "none") =>
        /\ heap[last_call.h].parent = Some(last_call.parent_expected)
        /\ \E k \in 1..Len(heap[last_call.parent_expected].children) :
               heap[last_call.parent_expected].children[k] = last_call.h

\* C3 (as claimed): over OpenTag, CloseTag and Text tokens parse never ends
\* in a failed lookup (unwrap of an unregistered identity) or a failed
\* borrow, and a CloseTag on an empty stack changes nothing but the
\* position in the token stream.
C3_NoProgrammerError ==
    /\ panicked \in {"none", "todo"}
    /\ (last_call.op = "CloseTag" /\ last_call.stack_was_empty) =>
           (stack = <<>> /\ Len(heap) = 1)

\* the open elements, innermost last, as heap indices
OpenElements == {open[k] : k \in 1..Len(open)}

\* C11 (as claimed): in_v_pre is scoped to the element that set it. After
\* an OpenTag of an element carrying v-pre the flag is true; the flag is
\* true only while the element that set it (the one process_pre marked
\* pre) is still open, so it is false after that element's CloseTag; and
\* an element opened while no open element carries v-pre gets normal
\* for/if/once processing (v-if="e" gives if_val = e).
C11_VPreScoped ==
    /\ (/\ last_call.op = "OpenTag"
        /\ panicked = "none"
        /\ AttrPresent(heap[last_call.h], UC_V_PRE)) => in_v_pre
    /\ in_v_pre => \E h \in OpenElements : heap[h].el.pre
    /\ (/\ last_call.op = "OpenTag"
        /\ panicked = "none"
        /\ \A h \in OpenElements : ~ AttrPresent(heap[h], UC_V_PRE)
        /\ AttrPresent(heap[last_call.h], UC_V_IF)
        /\ is_some(AttrEntry(heap[last_call.h], UC_V_IF))) =>
           heap[last_call.h].el.if_val =
               Some(unwrap(AttrEntry(heap[last_call.h], UC_V_IF))[1])

\* C14: a node opened while the driver is inside a v-pre region (in_v_pre
\* true once its OpenTag has settled the flag, the element that set it
\* included) gets raw-attribute handling only, for the rest of the parse:
\* no for / if / once field is set on it whatever attributes it carries,
\* no key, ref or slot field either (its CloseTag finalizes nothing), and
\* the only name its ignored set can hold is the v-pre that process_pre
\* consumed.
C14_VPreRawOnly ==
    \A h \in raw_only :
        LET el == heap[h].el
        IN  /\ el.alias = None
            /\ el.for_value = None
            /\ el.iterator1 = None
            /\ el.iterator2 = None
            /\ el.if_val = None
            /\ ~ el.is_else
            /\ el.else_if_val = None
            /\ ~ el.once
            /\ el.key = None
            /\ el.ref_val = None
            /\ ~ el.ref_in_for
            /\ el.slot_target = None
            /\ el.slot_scope = None
            /\ el.scoped_slots = None
            /\ el.ignored \subseteq {UC_V_PRE}

\* a node with v-for and a bound key was opened as a child inside a v-pre
\* region, below the element that set the flag, and carries no for field
C14_Witness ==
    /\ last_call.op = "OpenTag"
    /\ panicked = "none"
    /\ last_call.h \in raw_only
    /\ ~ heap[last_call.h].el.pre
    /\ \E h \in OpenElements \ {last_call.h} : heap[h].el.pre
    /\ AttrPresent(heap[last_call.h], UC_V_FOR)
    /\ AttrEntry(heap[last_call.h], UC_V_FOR) = Valued(V_for)
    /\ heap[last_call.h].el.for_value = None

(* ---------------------------------------------------------------------- *)
(* SpecTree: a client of ASTTree calling create and the processors        *)
(* ---------------------------------------------------------------------- *)
S_V_SLOT_FOO == S_V_SLOT \o <<":", "f", "o", "o">>

Q_FOO == Quoted(<<"f", "o", "o">>)

\* an element as the caller hands it to create
Element(data, attrs, new_slot_syntax) ==
    [create_ast_element(Token("OpenTag", data, attrs), options.dev)
        EXCEPT !.new_slot_syntax = new_slot_syntax]

TreeElements ==
    {Element("div", a, FALSE) :
        a \in {None,
               Some(Attr(UC_V_FOR, Valued(V_for))),
               Some(Attr(S_REF, Valued(V_r))),
               Some(Attr(S_REF, NoValue)),
               Some(Attrs2(Attr(UC_V_FOR, Valued(V_for)),
                           Attr(S_REF, Valued(V_r)))),
               Some(Attrs2(Attr(UC_V_FOR, Valued(V_for)),
                           Attr(S_REF, NoValue))),
               Some(Attr(S_SLOT_SCOPE, Valued(V_s)))}}
        \cup {Element("div", Some(Attr(S_V_SLOT_FOO, Valued(V_s))), TRUE),
              Element("template", Some(Attr(S_V_SLOT_FOO, Valued(V_s))), TRUE)}

InitTree ==
    InitWith([dev |-> TRUE, is_ssr |-> FALSE, is_pre_tag |-> None])

Handles == 1..Len(heap)

\* the identities a client can read off the nodes it holds
KnownIds == {heap[h].id : h \in Handles}

CallCreate ==
    \E element \in TreeElements, parent_id \in KnownIds :
        LET cr == ASTTree_create(Tree, element, parent_id, {})
        IN  /\ panicked = "none"
            /\ Len(heap) - 1 < MaxNodes
            /\ SetTree(cr.tree)
            /\ panicked' = cr.panic
            /\ last_call' = [op |-> "create", h |-> cr.handle,
                             parent_id |-> parent_id]
            /\ ret' = None
            /\ DriverUnchanged

\* a processor that touches only the node it is called on
CallNodeOp(op, h, node) ==
    /\ panicked = "none"
    /\ heap' = [heap EXCEPT ![h] = node]
    /\ last_call' = [op |-> op, h |-> h]
    /\ ret' = None
    /\ UNCHANGED <<counter, nodes, panicked>>
    /\ DriverUnchanged

ProcessSlotContentOn(h) ==
    LET r == process_slot_content(Tree, h)
    IN  /\ panicked = "none"
        /\ SetTree(r.tree)
        /\ panicked' = r.panic
        /\ last_call' = [op |-> "process_slot_content", h |-> h,
                         children_before |-> heap[h].children]
        /\ ret' = None
        /\ DriverUnchanged

CallProcessFor == \E h \in Handles :
    CallNodeOp("process_for", h, process_for(heap[h]))

CallProcessRef == \E h \in Handles :
    CallNodeOp("process_ref", h, process_ref(heap, heap[h]))

CallProcessSlotContent == \E h \in Handles : ProcessSlotContentOn(h)

NextTree ==
    CallCreate \/ CallProcessFor \/ CallProcessRef \/ CallProcessSlotContent

SpecTree == InitTree /\ [][NextTree]_vars

\* C1 (as claimed): the created nodes have pairwise different identities,
\* none of them the root's 0, and get(id) of a created node's identity
\* returns that node.
C1_UniqueRegisteredIds ==
    \A h \in 2..Len(heap) :
        /\ heap[h].id # 0
        /\ \A g \in 2..Len(heap) : g # h => heap[g].id # heap[h].id
        /\ ASTTree_get(Tree, heap[h].id) = Some(h)

\* the children of hp[h] that have no slot_scope, in order
RECURSIVE Unscoped(_, _)
Unscoped(hp, children) ==
    IF children = <<>> THEN <<>>
    ELSE IF is_none(hp[Head(children)].el.slot_scope)
    THEN <<Head(children)>> \o Unscoped(hp, Tail(children))
    ELSE Unscoped(hp, Tail(children))

\* C7 (as claimed): process_slot_content on a non-template node with
\* new_slot_syntax and v-slot:foo="s" completes; afterwards scoped_slots
\* has an entry for slot foo that is a new template node whose children
\* are the original children without slot_scope, in order; the node's own
\* child list is empty and plain is false.
C7_SlotRewrite ==
    (/\ last_call.op = "process_slot_content"
     /\ ~ IsTemplate(heap[last_call.h])
     /\ heap[last_call.h].el.new_slot_syntax
     /\ AttrPresent(heap[last_call.h], S_V_SLOT_FOO)
     /\ AttrEntry(heap[last_call.h], S_V_SLOT_FOO) = Valued(V_s)) =>
        LET self == heap[last_call.h]
        IN  /\ panicked = "none"
            /\ is_some(self.el.scoped_slots)
            /\ Q_FOO \in DOMAIN unwrap(self.el.scoped_slots)
            /\ LET c == unwrap(self.el.scoped_slots)[Q_FOO]
               IN  /\ IsTemplate(heap[c])
                   /\ heap[c].children =
                          Unscoped(heap, last_call.children_before)
            /\ self.children = <<>>
            /\ ~ self.el.plain

\* is for_value set on hp[h] or on a node of its parent chain
RECURSIVE ForOnChain(_, _)
ForOnChain(hp, h) ==
    \/ is_some(hp[h].el.for_value)
    \/ /\ is_some(hp[h].parent)
       /\ ForOnChain(hp, unwrap(hp[h].parent))

\* C10 (as claimed): after process_ref on a node that carries a ref
\* attribute, ref_in_for is true exactly when the node or a node of its
\* parent chain has for_value set.
C10_RefInFor ==
    (/\ last_call.op = "process_ref"
     /\ AttrPresent(heap[last_call.h], S_REF)) =>
        (heap[last_call.h].el.ref_in_for <=> ForOnChain(heap, last_call.h))

(* ---------------------------------------------------------------------- *)
(* SpecNode: the processors applied to one node created under the root    *)
(* ---------------------------------------------------------------------- *)
ForIds == {<<"a">>}

ForExprs == {<<"x", "s">>}

ForSeps == {<<" ", "i", "n", " ">>, <<" ", "o", "f", " ">>}

\* "A in E"
ForForm1(A, sep, E) == A \o sep \o E

\* "(A, I) in E"
ForForm2(A, I, sep, E) == <<"(">> \o A \o <<",", " ">> \o I \o <<")">> \o sep \o E

\* "(A, I, J) in E"
ForForm3(A, I, J, sep, E) ==
    <<"(">> \o A \o <<",", " ">> \o I \o <<",", " ">> \o J \o <<")">>
        \o sep \o E

V_i == <<"i">>

V_j == <<"j">>

ForExps ==
    {ForForm1(A, sep, E) : A \in ForIds, sep \in ForSeps, E \in ForExprs}
        \cup {ForForm2(A, V_i, sep, E) :
                 A \in ForIds, sep \in ForSeps, E \in ForExprs}
        \cup {ForForm3(A, V_i, V_j, sep, E) :
                 A \in ForIds, sep \in ForSeps, E \in ForExprs}
        \cup ForExprs

GenericEntries == {NoValue, Valued(V_empty), Valued(V_a)}

EntriesOf(name) ==
    IF name = UC_V_FOR THEN {Valued(e) : e \in ForExps}
    ELSE IF name \in {<<":">> \o UC_KEY, S_V_BIND \o UC_KEY}
    THEN {NoValue, Valued(V_a), Valued(V_filter)}
    ELSE IF name = UC_KEY THEN {NoValue, Valued(V_empty), Valued(V_b)}
    ELSE IF SLOT_RE_is_match(name) \/ name \in {S_SLOT_SCOPE, S_SCOPE}
    THEN {NoValue, Valued(V_empty), Valued(V_s)}
    ELSE GenericEntries

\* the attribute maps with between 1 and MaxAttrs names out of family
MapsOver(family) ==
    UNION {{f \in [D -> UNION {EntriesOf(n) : n \in D}] :
               \A n \in D : f[n] \in EntriesOf(n)} :
           D \in {X \in SUBSET family :
                     Cardinality(X) >= 1 /\ Cardinality(X) <= MaxAttrs}}

FamIf == {UC_V_IF, UC_V_ELSE, UC_V_ELSE_IF}

FamFlags == {UC_V_PRE, UC_V_ONCE}

FamFor == {UC_V_FOR, S_REF}

FamKey == {<<":">> \o UC_KEY, S_V_BIND \o UC_KEY, UC_KEY}

FamSlotTarget == {S_SLOT, <<":">> \o S_SLOT, S_V_BIND \o S_SLOT}

FamSlotScope == {S_SLOT, S_SLOT_SCOPE, S_SCOPE}

FamVSlot == {S_V_SLOT, S_V_SLOT_FOO, <<"#", "f", "o", "o">>,
             S_V_SLOT \o <<":", "[", "d", "]">>}

\* <<dev, tag, attrs, new_slot_syntax>>
NodeInputs ==
    ({TRUE} \X {"div"}
        \X ({None} \cup {Some(m) : m \in MapsOver(FamIf) \cup
                            MapsOver(FamFlags) \cup MapsOver(FamFor)})
        \X {FALSE})
    \cup (BOOLEAN \X {"div"} \X {Some(m) : m \in MapsOver(FamKey)} \X {FALSE})
    \cup ({TRUE} \X {"div", "template"}
            \X {Some(m) : m \in MapsOver(FamSlotTarget) \cup
                                MapsOver(FamSlotScope)}
            \X {FALSE})
    \cup ({TRUE} \X {"div", "template"}
            \X ({None} \cup {Some(m) : m \in MapsOver(FamVSlot)})
            \X BOOLEAN)

\* the node under test: the first allocation after the root
NodeH == Len(ASTTree_new(TRUE).heap) + 1

InitNode ==
    \E i \in NodeInputs :
        LET t0 == ASTTree_new(i[1])
            el == [create_ast_element(Token("OpenTag", i[2], i[3]), i[1])
                      EXCEPT !.new_slot_syntax = i[4]]
            cr == ASTTree_create(t0, el, 0, {})
        IN  /\ options = [dev |-> i[1], is_ssr |-> FALSE, is_pre_tag |-> None]
            /\ heap = cr.tree.heap
            /\ counter = cr.tree.counter
            /\ nodes = cr.tree.nodes
            /\ stack = <<>>
            /\ open = <<>>
            /\ in_v_pre = FALSE
            /\ in_pre = FALSE
            /\ pos = 0
            /\ raw_only = {}
            /\ panicked = "none"
            /\ last_call = NoCall
            /\ ret = None

NodeProcessPre == CallNodeOp("process_pre", NodeH, process_pre(heap[NodeH]))

NodeProcessRawAttributes ==
    CallNodeOp("process_raw_attributes", NodeH,
               process_raw_attributes(heap[NodeH]))

NodeProcessFor == CallNodeOp("process_for", NodeH, process_for(heap[NodeH]))

NodeProcessIf == CallNodeOp("process_if", NodeH, process_if(heap[NodeH]))

NodeProcessOnce == CallNodeOp("process_once", NodeH, process_once(heap[NodeH]))

NodeProcessKey == CallNodeOp("process_key", NodeH, process_key(heap[NodeH]))

NodeProcessRef ==
    CallNodeOp("process_ref", NodeH, process_ref(heap, heap[NodeH]))

NodeProcessSlotContent == ProcessSlotContentOn(NodeH)

BindNames == {UC_KEY, S_SLOT}

NodeGetBindingAttr ==
    \E name \in BindNames, get_static \in BOOLEAN :
        LET r == get_binding_attr(heap[NodeH], name, get_static)
        IN  /\ panicked = "none"
            /\ heap' = [heap EXCEPT ![NodeH] = r.node]
            /\ last_call' = [op |-> "get_binding_attr", h |-> NodeH,
                             name |-> name, get_static |-> get_static]
            /\ ret' = r.ret
            /\ UNCHANGED <<counter, nodes, panicked>>
            /\ DriverUnchanged

NextNode ==
    \/ NodeProcessPre
    \/ NodeProcessRawAttributes
    \/ NodeProcessFor
    \/ NodeProcessIf
    \/ NodeProcessOnce
    \/ NodeProcessKey
    \/ NodeProcessRef
    \/ NodeProcessSlotContent
    \/ NodeGetBindingAttr

SpecNode == InitNode /\ [][NextNode]_vars

\* the entry of attribute name on the node under test, None when absent
NodeEntry(name) ==
    IF AttrPresent(heap[NodeH], name) THEN AttrEntry(heap[NodeH], name)
    ELSE None

NodeValued(name) == is_some(NodeEntry(name))

NodeValue(name) == unwrap(NodeEntry(name))[1]

\* C4 (as claimed): process_for on "A in E" / "A of E" sets alias = A,
\* for_value = E and no iterator; on "(A, I) in E" alias = A, iterator1 = I,
\* for_value = E; on "(A, I, J) in E" also iterator2 = J.
C4_ForSplit ==
    last_call.op = "process_for" =>
        \A A \in ForIds, sep \in ForSeps, E \in ForExprs :
            LET el == heap[NodeH].el
            IN  /\ NodeEntry(UC_V_FOR) = Valued(ForForm1(A, sep, E)) =>
                       /\ el.alias = Some(A)
                       /\ el.for_value = Some(E)
                       /\ el.iterator1 = None
                       /\ el.iterator2 = None
                /\ NodeEntry(UC_V_FOR) = Valued(ForForm2(A, V_i, sep, E)) =>
                       /\ el.alias = Some(A)
                       /\ el.for_value = Some(E)
                       /\ el.iterator1 = Some(V_i)
                /\ NodeEntry(UC_V_FOR)
                           = Valued(ForForm3(A, V_i, V_j, sep, E)) =>
                       /\ el.alias = Some(A)
                       /\ el.for_value = Some(E)
                       /\ el.iterator1 = Some(V_i)
                       /\ el.iterator2 = Some(V_j)

\* the attributes among v-if, v-else, v-else-if that the node under test has
IfAttrs == {n \in FamIf : AttrPresent(heap[NodeH], n)}

\* C5 (as claimed): process_if on a node with exactly one of v-if, v-else,
\* v-else-if sets the field of that attribute and leaves the other two
\* unset: v-if="e" gives if_val = e, v-else gives is_else, v-else-if="e"
\* gives else_if_val = e.
C5_IfExclusive ==
    (last_call.op = "process_if" /\ Cardinality(IfAttrs) = 1) =>
        LET el == heap[NodeH].el
        IN  /\ (UC_V_IF \in IfAttrs /\ NodeValued(UC_V_IF)) =>
                   /\ el.if_val = Some(NodeValue(UC_V_IF))
                   /\ ~ el.is_else
                   /\ el.else_if_val = None
            /\ UC_V_ELSE \in IfAttrs =>
                   /\ el.is_else
                   /\ el.if_val = None
                   /\ el.else_if_val = None
            /\ (UC_V_ELSE_IF \in IfAttrs /\ NodeValued(UC_V_ELSE_IF)) =>
                   /\ el.else_if_val = Some(NodeValue(UC_V_ELSE_IF))
                   /\ el.if_val = None
                   /\ ~ el.is_else

\* C6: get_binding_attr(name, get_static) returns the filtered value of
\* :name when that has a value, else the filtered value of v-bind:name when
\* that has a value, else the static value of name when get_static is set
\* and name has a value, else the empty string; so with a valued dynamic
\* binding the result is its filtered value, whatever the static value.
C6_BindingOrder ==
    last_call.op = "get_binding_attr" =>
        LET short == <<":">> \o last_call.name
            long == S_V_BIND \o last_call.name
        IN  IF NodeValued(short)
            THEN ret = parse_filters(unwrap(NodeEntry(short)))
            ELSE IF NodeValued(long)
            THEN ret = parse_filters(unwrap(NodeEntry(long)))
            ELSE IF last_call.get_static /\ NodeValued(last_call.name)
            THEN ret = NodeValue(last_call.name)
            ELSE ret = <<>>

C6_Witness ==
    /\ last_call.op = "get_binding_attr"
    /\ last_call.name = UC_KEY
    /\ last_call.get_static
    /\ NodeEntry(<<":">> \o UC_KEY) = Valued(V_a)
    /\ NodeEntry(UC_KEY) = Valued(V_b)
    /\ ret = V_a

\* C8 (as claimed): process_slot_content on a <template> with
\* new_slot_syntax and the single attribute v-slot:NAME / #NAME completes
\* and sets slot_target to the slot name resolved from the attribute name,
\* and slot_scope to the attribute value, "_empty_" when the value is
\* empty or the attribute has no value.
C8_TemplateVSlot ==
    (/\ last_call.op = "process_slot_content"
     /\ IsTemplate(heap[NodeH])
     /\ heap[NodeH].el.new_slot_syntax
     /\ is_some(heap[NodeH].el.token.attrs)) =>
        \A n \in FamVSlot :
            DOMAIN unwrap(heap[NodeH].el.token.attrs) = {n} =>
                /\ panicked = "none"
                /\ heap[NodeH].el.slot_target = Some(get_slot_name(n).name)
                /\ heap[NodeH].el.slot_scope =
                       IF NodeValued(n) /\ NodeValue(n) # <<>>
                       THEN Some(NodeValue(n))
                       ELSE Some(EMPTY_SLOT_SCOPE_TOKEN)

\* C12 (as claimed): the boolean directives are presence-based. After
\* process_pre on a node whose attribute map has the key v-pre, with or
\* without a value, pre is true; after process_once with the key v-once,
\* once is true; after process_if with the key v-else (and no v-if, which
\* is checked first), is_else is true.
C12_PresenceBased ==
    /\ (last_call.op = "process_pre" /\ AttrPresent(heap[NodeH], UC_V_PRE)) =>
           heap[NodeH].el.pre
    /\ (last_call.op = "process_once"
            /\ AttrPresent(heap[NodeH], UC_V_ONCE)) =>
           heap[NodeH].el.once
    /\ (/\ last_call.op = "process_if"
        /\ AttrPresent(heap[NodeH], UC_V_ELSE)
        /\ ~ AttrPresent(heap[NodeH], UC_V_IF)) =>
           heap[NodeH].el.is_else

\* C13 (as claimed): after process_slot_content on a node (legacy syntax)
\* whose slot attribute has a value, slot_target is that value, "default"
\* when the value is empty, and slot_target_dynamic is true exactly when
\* the node has :slot or v-bind:slot; a static slot="name" alone leaves
\* slot_target_dynamic false.
C13_LegacySlot ==
    (/\ last_call.op = "process_slot_content"
     /\ ~ heap[NodeH].el.new_slot_syntax
     /\ NodeValued(S_SLOT)) =>
        /\ heap[NodeH].el.slot_target =
               Some(IF NodeValue(S_SLOT) = <<>> THEN S_DEFAULT
                    ELSE NodeValue(S_SLOT))
        /\ heap[NodeH].el.slot_target_dynamic <=>
               \/ AttrPresent(heap[NodeH], <<":">> \o S_SLOT)
               \/ AttrPresent(heap[NodeH], S_V_BIND \o S_SLOT)

ScalarOps == {"process_pre", "process_for", "process_if", "process_once"}

\* the processor named op, applied to node
RunScalar(op, node) ==
    CASE op = "process_pre" -> process_pre(node)
      [] op = "process_for" -> process_for(node)
      [] op = "process_if" -> process_if(node)
      [] op = "process_once" -> process_once(node)

\* the directive attributes of the processor named op that node has
DirectivesOf(op, node) ==
    LET names == CASE op = "process_pre" -> {UC_V_PRE}
                   [] op = "process_for" -> {UC_V_FOR}
                   [] op = "process_once" -> {UC_V_ONCE}
                   [] op = "process_if" -> {UC_V_IF, UC_V_ELSE, UC_V_ELSE_IF}
    IN  {n \in names : AttrPresent(node, n)}

\* the ones among them the processor is bound to reach: for process_if
\* v-if is looked at first, v-else and v-else-if when there is no v-if
ReachedOf(op, node) ==
    IF op = "process_if" /\ ~ AttrPresent(node, UC_V_IF)
    THEN DirectivesOf(op, node)
    ELSE DirectivesOf(op, node) \ {UC_V_ELSE, UC_V_ELSE_IF}

\* C15: a step of process_pre, process_for, process_if or process_once
\* leaves the node's token, raw attribute map included, as it was; the
\* ignored set grows by the names of the processor's directive attributes
\* that are present, and by nothing else (name and value stay in the map);
\* with no directive attribute present the node is unchanged; and the
\* processor applied again to the resulting node changes nothing.
C15_ScalarFrame ==
    [][last_call'.op \in ScalarOps =>
          LET before == heap[NodeH]
              after == heap'[NodeH]
              present == DirectivesOf(last_call'.op, before)
              reached == ReachedOf(last_call'.op, before)
          IN  /\ after.el.token = before.el.token
              /\ before.el.ignored \cup reached \subseteq after.el.ignored
              /\ after.el.ignored \subseteq before.el.ignored \cup present
              /\ \A n \in present :
                     /\ AttrPresent(after, n)
                     /\ AttrEntry(after, n) = AttrEntry(before, n)
              /\ present = {} => after = before
              /\ RunScalar(last_call'.op, after) = after]_vars

\* process_for has consumed v-for="a in xs": the for fields are set, the
\* name is in ignored, and the attribute is still in the map with its value
C15_Witness ==
    /\ last_call.op = "process_for"
    /\ NodeEntry(UC_V_FOR) = Valued(V_for)
    /\ UC_V_FOR \in heap[NodeH].el.ignored
    /\ heap[NodeH].el.for_value = Some(<<"x", "s">>)

=============================================================================
